---- MODULE Spec2Model ----
(***************************************************************************)
(* Volty: electricity price monitor.                                       *)
(*                                                                         *)
(* Price Fetcher   = ElectricityPriceService  (electricityPriceService.ts) *)
(* Notifier        = NotificationService      (notificationService.ts)     *)
(* Scheduler       = BackgroundTaskService, timer-based variant            *)
(* Controller      = useElectricityPriceMonitor (the React hook)           *)
(*                                                                         *)
(* Strings of the feed are sequences of one-character strings, numbers are *)
(* exact decimals num/den (den a power of ten) or NaN.                     *)
(***************************************************************************)
EXTENDS Integers, Sequences, FiniteSets, Bags, TLC

VARIABLES
    monitoringInterval,   \* BackgroundTaskService.monitoringInterval: 0 (null) or a timer id
    bgIsMonitoring,       \* BackgroundTaskService.isMonitoring
    timers,               \* the runtime's live intervals created by the Scheduler's setInterval
    currentPrice,         \* hook state: PriceData or Null
    isLoading,            \* hook state
    error,                \* hook state: message or NoError
    isMonitoring,         \* hook state
    backgroundTaskStatus, \* hook state
    mounted,              \* the hook's effects have run (status poll interval exists)
    autoRefreshInterval,  \* number of live 5-minute intervals of the auto-refresh effect
    ops,                  \* async calls in flight: a bag of call records
    event,                \* the step taken last
    noStartSinceStop,     \* a stop has completed and no start was invoked after it
    roundTrip,            \* progress of "toggle twice from Idle, one after the other"
    recording,            \* the history below is kept (HistorySpec) or left as it starts
    ranking,              \* the order in which the refreshPrice calls began is kept as
                          \* history (OrderSpec) or not
    configured,           \* history: a configurePushNotifications call has completed
    notifiedPoints,       \* history: timestamps of the price points a delivered
                          \* notification was about
    latestPrice,          \* history: what the refreshPrice call begun last, among those
                          \* whose fetch succeeded so far, fetched (or Null)
    response,             \* FetchSpec: the transport's answer
    fetched,              \* FetchSpec: what fetchCurrentPrice gave for it
    history,              \* FetchSpec: what getPriceHistory gave for it
    permission,           \* PermissionSpec: the platform's notification permission status
    promptCount,          \* PermissionSpec: requestPermissionsAsync calls made so far
    permissionCalls,      \* PermissionSpec: requestPermissions calls made so far
    permissionCall,       \* PermissionSpec: the requestPermissions call made last
    registered,           \* PlatformSpec: the background fetch task is registered
    pendingAlerts,        \* PlatformSpec: the platform's pending scheduled notifications
    platformOps,          \* PlatformSpec: calls of the platform-scheduled service in flight
    platformEvent         \* PlatformSpec: the step taken last

vars == <<monitoringInterval, bgIsMonitoring, timers, currentPrice, isLoading, error,
          isMonitoring, backgroundTaskStatus, mounted, autoRefreshInterval, ops, event,
          noStartSinceStop, roundTrip, recording, ranking, configured, notifiedPoints, latestPrice,
          response, fetched,
          history, permission, promptCount, permissionCalls, permissionCall,
          registered, pendingAlerts, platformOps, platformEvent>>

schedulerVars == <<monitoringInterval, bgIsMonitoring, timers>>
hookVars == <<currentPrice, isLoading, error, isMonitoring, backgroundTaskStatus,
              mounted, autoRefreshInterval>>
notifierVars == <<configured, notifiedPoints>>
fetchVars == <<response, fetched, history>>
permissionVars == <<permission, promptCount, permissionCalls, permissionCall>>
platformVars == <<registered, pendingAlerts, platformOps, platformEvent>>
isolatedVars == <<fetchVars, permissionVars, platformVars, recording, ranking>>
monitorVars == <<schedulerVars, hookVars, ops, event, noStartSinceStop, roundTrip,
                 notifierVars, latestPrice>>

(***************************************************************************)
(* Bounds                                                                  *)
(***************************************************************************)
MaxOps == 2        \* async calls in flight at once
MaxTimers == 2     \* live Scheduler intervals (a leaked interval is never cleared)
MaxStrLen == 3     \* characters of element 0's price string
MaxFeedLen == 2    \* feed records in a response
MaxPermissionCalls == 4   \* requestPermissions calls in a run of PermissionSpec
MaxPlatformOps == 2       \* calls of the platform-scheduled service in flight at once
MaxPending == 2           \* pending daily reminders

(***************************************************************************)
(* Numbers and the runtime's string-to-number conversions                  *)
(***************************************************************************)
Digits == {"0", "5", "8"}
Alphabet == Digits \cup {".", "-", " ", "a"}

DigitVal(c) == CASE c = "0" -> 0 [] c = "5" -> 5 [] c = "8" -> 8

NaN == [nan |-> TRUE, num |-> 0, den |-> 1]

RECURSIVE Pow10(_)
Pow10(n) == IF n = 0 THEN 1 ELSE 10 * Pow10(n - 1)

\* a double holds 8.0 and 8 as the same value: trailing fractional zeros are dropped
RECURSIVE Normalize(_, _)
Normalize(num, den) ==
    IF den > 1 /\ num % 10 = 0 THEN Normalize(num \div 10, den \div 10)
    ELSE [nan |-> FALSE, num |-> num, den |-> den]

RECURSIVE SkipWhitespace(_)
SkipWhitespace(s) ==
    IF s # <<>> /\ Head(s) = " " THEN SkipWhitespace(Tail(s)) ELSE s

RECURSIVE DigitPrefixLen(_)
DigitPrefixLen(s) ==
    IF s # <<>> /\ Head(s) \in Digits THEN 1 + DigitPrefixLen(Tail(s)) ELSE 0

RECURSIVE DigitsValue(_)
DigitsValue(ds) ==
    IF ds = <<>> THEN 0
    ELSE 10 * DigitsValue(SubSeq(ds, 1, Len(ds) - 1)) + DigitVal(ds[Len(ds)])

\* parseFloat: leading whitespace, a sign, then the longest prefix  digits [ . digits ]
\* or  . digits ; what follows is ignored; no digit at all gives NaN
parseFloat(str) ==
    LET t == SkipWhitespace(str)
        neg == t # <<>> /\ Head(t) = "-"
        u == IF neg THEN Tail(t) ELSE t
        k1 == DigitPrefixLen(u)
        rest == SubSeq(u, k1 + 1, Len(u))
        hasDot == rest # <<>> /\ Head(rest) = "."
        fracAll == IF hasDot THEN Tail(rest) ELSE <<>>
        k2 == DigitPrefixLen(fracAll)
        mag == DigitsValue(SubSeq(u, 1, k1)) * Pow10(k2) + DigitsValue(SubSeq(fracAll, 1, k2))
    IN  IF k1 + k2 = 0 THEN NaN
        ELSE Normalize(IF neg THEN 0 - mag ELSE mag, Pow10(k2))

\* parseInt (radix 10): leading whitespace, a sign, then the longest prefix of digits
parseInt(str) ==
    LET t == SkipWhitespace(str)
        neg == t # <<>> /\ Head(t) = "-"
        u == IF neg THEN Tail(t) ELSE t
        k == DigitPrefixLen(u)
        mag == DigitsValue(SubSeq(u, 1, k))
    IN  IF k = 0 THEN NaN
        ELSE [nan |-> FALSE, num |-> IF neg THEN 0 - mag ELSE mag, den |-> 1]

\* a < b on numbers; any comparison with NaN is false
LessThan(a, b) == ~a.nan /\ ~b.nan /\ a.num * b.den < b.num * a.den

(***************************************************************************)
(* Price Fetcher: ElectricityPriceService                                  *)
(***************************************************************************)
PRICE_THRESHOLD == 8

Threshold == [nan |-> FALSE, num |-> PRICE_THRESHOLD, den |-> 1]

\* the value of a call that resolved to null
Null == [isNull |-> TRUE, price |-> NaN, timestamp |-> NaN, isUnderThreshold |-> FALSE]

PriceData(price, timestamp, isUnderThreshold) ==
    [isNull |-> FALSE, price |-> price, timestamp |-> timestamp,
     isUnderThreshold |-> isUnderThreshold]

\* how an awaited call ends: it returns a value or it throws
Returned(v) == [threw |-> FALSE, value |-> v]
Threw == [threw |-> TRUE, value |-> Null]

\* what the transport gives: fetch() rejects, or a response with its status and body;
\* the body is invalid JSON, the JSON value null, or an array of feed records
NetworkError == [net |-> "error", ok |-> FALSE, body |-> [kind |-> "invalid", items |-> <<>>]]
HttpResponse(ok, body) == [net |-> "ok", ok |-> ok, body |-> body]
InvalidBody == [kind |-> "invalid", items |-> <<>>]
NullBody == [kind |-> "null", items |-> <<>>]
ArrayBody(items) == [kind |-> "array", items |-> items]

\* faulty variant of IsUnderThreshold: "<=" where the code has "<"
IsUnderThresholdInclusive(price) == LessThan(price, Threshold) \/ price = Threshold

\* "price < this.PRICE_THRESHOLD"
IsUnderThreshold(price) == LessThan(price, Threshold)

\* faulty variant of FetchCurrentPriceTry: the "!response.ok" check is missing
FetchCurrentPriceTryAnyStatus(resp) ==
    IF resp.net = "error" THEN Threw
    ELSE IF resp.body.kind = "invalid" THEN Threw
    ELSE IF resp.body.kind = "null" \/ Len(resp.body.items) = 0 THEN Threw
    ELSE LET mostRecent == resp.body.items[1]
             price == parseFloat(mostRecent.price)
         IN  Returned(PriceData(price, parseInt(mostRecent.millisUTC),
                                IsUnderThreshold(price)))

\* the try block of fetchCurrentPrice
FetchCurrentPriceTry(resp) ==
    IF resp.net = "error" THEN Threw                                \* await fetch() rejects
    ELSE IF ~resp.ok THEN Threw                                     \* throw new Error('HTTP error!')
    ELSE IF resp.body.kind = "invalid" THEN Threw                   \* await response.json() rejects
    ELSE IF resp.body.kind = "null" \/ Len(resp.body.items) = 0
         THEN Threw                                                 \* throw new Error('No price data received')
    ELSE LET mostRecent == resp.body.items[1]
             price == parseFloat(mostRecent.price)
             timestamp == parseInt(mostRecent.millisUTC)
             isUnderThreshold == IsUnderThreshold(price)
         IN  Returned(PriceData(price, timestamp, isUnderThreshold))

\* fetchCurrentPrice: the catch block turns every throw into null
FetchCurrentPrice(resp) ==
    LET r == FetchCurrentPriceTry(resp)
    IN  IF r.threw THEN Returned(Null) ELSE r

\* faulty variant of GetPriceHistoryTry: the "!response.ok" check is missing
GetPriceHistoryTryAnyStatus(resp) ==
    IF resp.net = "error" THEN [threw |-> TRUE, items |-> <<>>]
    ELSE IF resp.body.kind = "invalid" THEN [threw |-> TRUE, items |-> <<>>]
    ELSE [threw |-> FALSE,
          items |-> IF resp.body.kind = "null" THEN <<>> ELSE resp.body.items]

\* the try block of getPriceHistory
GetPriceHistoryTry(resp) ==
    IF resp.net = "error" THEN [threw |-> TRUE, items |-> <<>>]      \* await fetch() rejects
    ELSE IF ~resp.ok THEN [threw |-> TRUE, items |-> <<>>]           \* throw new Error('HTTP error!')
    ELSE IF resp.body.kind = "invalid"
         THEN [threw |-> TRUE, items |-> <<>>]                       \* await response.json() rejects
    ELSE [threw |-> FALSE,                                           \* return data || []
          items |-> IF resp.body.kind = "null" THEN <<>> ELSE resp.body.items]

\* getPriceHistory: the catch block turns every throw into an empty array
GetPriceHistory(resp) ==
    LET r == GetPriceHistoryTry(resp)
    IN  IF r.threw THEN [threw |-> FALSE, items |-> <<>>] ELSE r

(***************************************************************************)
(* Feed inputs                                                             *)
(***************************************************************************)
Strings(n) == UNION {[1..k -> Alphabet] : k \in 0..n}

TimeStrings == {<<"5", "8">>, <<"5", "a">>, <<"a">>}

\* element 0 of a feed and the older records behind it
MostRecentRecords == [millisUTC : TimeStrings, price : Strings(MaxStrLen)]
OlderRecords == {[millisUTC |-> <<"8">>, price |-> <<"5", "5">>]}

Feeds ==
    {<<>>} \cup
    UNION {{<<r>> \o t : r \in MostRecentRecords, t \in [1..k -> OlderRecords]} :
           k \in 0..(MaxFeedLen - 1)}

Bodies == {InvalidBody, NullBody} \cup {ArrayBody(f) : f \in Feeds}

Responses == {NetworkError} \cup {HttpResponse(ok, b) : ok \in BOOLEAN, b \in Bodies}

\* the answers the monitoring model draws from
LowRecord == [millisUTC |-> <<"5", "8">>, price |-> <<"5", ".", "5">>]
HighRecord == [millisUTC |-> <<"5", "8">>, price |-> <<"8", ".", "5">>]
SampleResponses ==
    {NetworkError,
     HttpResponse(FALSE, ArrayBody(<<LowRecord>>)),
     HttpResponse(TRUE, ArrayBody(<<>>)),
     HttpResponse(TRUE, ArrayBody(<<LowRecord, HighRecord>>)),
     HttpResponse(TRUE, ArrayBody(<<HighRecord, LowRecord>>))}

NoResponse == NetworkError
NotFetched == [done |-> FALSE, threw |-> FALSE, value |-> Null]
NotFetchedHistory == [done |-> FALSE, threw |-> FALSE, items |-> <<>>]

(***************************************************************************)
(* Notifier: NotificationService                                           *)
(***************************************************************************)
\* how the platform answers configuration: permission granted, permission denied,
\* or one of the platform calls rejects
ConfigOutcomes == {"granted", "denied", "error"}

\* faulty variant of ConfigurePushNotifications: a denied permission rejects the call
ConfigurePushNotificationsStrict(outcome) ==
    IF outcome \in {"error", "denied"} THEN Threw ELSE Returned(Null)

\* configurePushNotifications has no try/catch; a denied permission is not an error
ConfigurePushNotifications(outcome) ==
    IF outcome = "error" THEN Threw ELSE Returned(Null)

PermissionStatuses == {"undetermined", "denied", "granted"}

\* what the user answers when the platform asks
PromptAnswers == {"granted", "denied"}

NotCalled ==
    [called |-> FALSE, existingStatus |-> "undetermined", prompts |-> 0,
     finalStatus |-> "undetermined", returned |-> FALSE]

\* faulty variant of NeedsPrompt: the platform is asked whatever the status is
NeedsPromptAlways(existingStatus) == TRUE

\* requestPermissions: "if (existingStatus !== 'granted')"
NeedsPrompt(existingStatus) == existingStatus # "granted"

\* requestPermissions: getPermissionsAsync gives existingStatus; requestPermissionsAsync,
\* when called, gives the answer; the result is  finalStatus === 'granted'
RequestPermissions(existingStatus, answer) ==
    LET asks == NeedsPrompt(existingStatus)
        finalStatus == IF asks THEN answer ELSE existingStatus
    IN  [called |-> TRUE, existingStatus |-> existingStatus,
         prompts |-> IF asks THEN 1 ELSE 0, finalStatus |-> finalStatus,
         returned |-> (finalStatus = "granted")]

\* faulty variant of SendLowPriceNotification: a delivery failure is thrown on
SendLowPriceNotificationRethrows(delivered) ==
    IF delivered THEN Returned(Null) ELSE Threw

\* sendLowPriceNotification: the catch block logs a delivery failure and returns
SendLowPriceNotification(delivered) ==
    LET try == IF delivered THEN Returned(Null) ELSE Threw
    IN  IF try.threw THEN Returned(Null) ELSE try

(***************************************************************************)
(* Async calls in flight                                                   *)
(***************************************************************************)
\* a call in flight: where it is suspended, and what it has done so far
\*   refreshes       refreshPrice calls it has begun
\*   timestamp       the timestamp of the price point it fetched
\* and, as history (the first two kept while recording, the last two while ranking):
\*   configureThrew  its configurePushNotifications call rejected
\*   stale           stopMonitoring ran while its fetch was in flight
\*   rank            its place, by the time it began, among the refreshPrice calls in
\*                   flight (1 is the oldest; 0: it has begun none)
\*   overtaken       the fetch of a refreshPrice call begun after it succeeded while
\*                   its own fetch was in flight
Call(kind, pc) ==
    [kind |-> kind, pc |-> pc, notifyCalls |-> 0, fetchedAs |-> "none",
     refreshes |-> 0, configureThrew |-> FALSE, stale |-> FALSE, timestamp |-> NaN,
     rank |-> 0, overtaken |-> FALSE]

InFlight == BagToSet(ops)

\* history: the rank of the refreshPrice call that begins now
NextRank == IF ranking THEN 1 + Cardinality({d \in InFlight : d.rank > 0}) ELSE 0

\* the call c begins a refreshPrice call and is suspended in its fetch
Refreshing(c) == [c EXCEPT !.pc = "fetching", !.refreshes = @ + 1, !.rank = NextRank]
CanCall == BagCardinality(ops) < MaxOps
Begun(c) == ops (+) SetToBag({c})
\* the call c of the calls in flight ends (history: the ranks above its own close up)
EndedOf(calls, c) ==
    LET CloseUp(d) == IF d.rank > c.rank THEN [d EXCEPT !.rank = @ - 1] ELSE d
        rest == calls (-) SetToBag({c})
    IN  IF c.rank > 0 THEN BagOfAll(CloseUp, rest) ELSE rest
Ended(c) == EndedOf(ops, c)
\* history: the fetch of the call c succeeded (got); the refreshPrice calls begun
\* before it whose fetch is still in flight are overtaken
Overtaking(c, got) ==
    LET Overtake(d) == IF d.rank > 0 /\ d.rank < c.rank /\ d.pc = "fetching"
                       THEN [d EXCEPT !.overtaken = TRUE] ELSE d
    IN  IF ranking /\ got THEN BagOfAll(Overtake, ops) ELSE ops
MovedOf(calls, c, d) == (calls (-) SetToBag({c})) (+) SetToBag({d})
Moved(c, d) == MovedOf(ops, c, d)
StartInFlight == \E c \in InFlight : c.kind = "start"

\* what a fetch gave, as the step that completes a call reports it
FetchedAs(r) ==
    IF r.threw THEN "threw"
    ELSE IF r.value.isNull THEN "failed"
    ELSE IF r.value.isUnderThreshold THEN "under" ELSE "notUnder"

Event(op, info, completed, fetchedAs, notifyCalls) ==
    [op |-> op, info |-> info, completed |-> completed, fetchedAs |-> fetchedAs,
     notifyCalls |-> notifyCalls, delivery |-> "none", refreshes |-> 0,
     threw |-> FALSE, outcome |-> "none", configureThrew |-> FALSE, stale |-> FALSE]
Step(op, info) == Event(op, info, "none", "none", 0)

\* a step of the call c that is not its last
StepOf(c, op, info) == [Step(op, info) EXCEPT !.stale = c.stale]

\* the step that completes the call c
Finished(c, fetchedAs, delivery) ==
    [Event("Finish", "none", c.kind, fetchedAs, c.notifyCalls) EXCEPT
        !.delivery = delivery, !.refreshes = c.refreshes,
        !.configureThrew = c.configureThrew, !.stale = c.stale]

Delivery(delivered) == IF delivered THEN "delivered" ELSE "failed"

\* stopMonitoring aborts nothing: the calls whose fetch is in flight stay in flight
\* (history: they are marked when the stop ends a monitoring that was on)
MarkStale(c) ==
    IF recording /\ (isMonitoring \/ bgIsMonitoring) /\ c.pc = "fetching" THEN [c EXCEPT !.stale = TRUE] ELSE c

(***************************************************************************)
(* Scheduler: BackgroundTaskService (timer-based)                          *)
(***************************************************************************)
TimerIds == 1..MaxTimers
NewTimer == CHOOSE t \in TimerIds \ timers : \A u \in TimerIds \ timers : t <= u

\* faulty variant of AlreadyMonitoring: the guard never finds monitoring active
AlreadyMonitoringNever == FALSE

\* the guard of startPeriodicPriceCheck: "Monitoring already active"
AlreadyMonitoring == bgIsMonitoring

\* faulty variant of StartPeriodicPriceCheckResume: the interval is created before the
\* configuration is awaited, so that a failed configuration leaves it behind
StartPeriodicPriceCheckResumeLeavesInterval(cfg) ==
    IF cfg.threw /\ timers = TimerIds
    THEN UNCHANGED schedulerVars
    ELSE /\ timers' = timers \cup {NewTimer}
         /\ monitoringInterval' = NewTimer
         /\ bgIsMonitoring' = (bgIsMonitoring \/ ~cfg.threw)

\* faulty variant of StartPeriodicPriceCheckResume: the flag is set although the
\* configuration failed and no interval was created
StartPeriodicPriceCheckResumeSetsFlag(cfg) ==
    IF cfg.threw
    THEN /\ bgIsMonitoring' = TRUE
         /\ UNCHANGED <<timers, monitoringInterval>>
    ELSE /\ timers' = timers \cup {NewTimer}
         /\ monitoringInterval' = NewTimer
         /\ bgIsMonitoring' = TRUE

\* startPeriodicPriceCheck after  await configurePushNotifications()  has settled
StartPeriodicPriceCheckResume(cfg) ==
    IF cfg.threw
    THEN UNCHANGED schedulerVars              \* catch: logged, nothing else
    ELSE /\ timers' = timers \cup {NewTimer}  \* setInterval
         /\ monitoringInterval' = NewTimer
         /\ bgIsMonitoring' = TRUE

\* how startPeriodicPriceCheck ends for its caller: its catch block logs the error of
\* the configuration and returns
StartPeriodicPriceCheck(cfg) ==
    LET try == IF cfg.threw THEN Threw ELSE Returned(Null)
    IN  IF try.threw THEN Returned(Null) ELSE try

\* faulty variant of StopPeriodicPriceCheck: the flag is reset but the interval is not cleared
StopPeriodicPriceCheckKeepsInterval ==
    /\ bgIsMonitoring' = FALSE
    /\ UNCHANGED <<timers, monitoringInterval>>

\* faulty variant of StopPeriodicPriceCheck: the flag is flipped instead of reset
StopPeriodicPriceCheckFlipsFlag ==
    /\ timers' = IF monitoringInterval # 0 THEN timers \ {monitoringInterval} ELSE timers
    /\ monitoringInterval' = 0
    /\ bgIsMonitoring' = ~bgIsMonitoring

\* stopPeriodicPriceCheck: no await inside, it runs in one piece
StopPeriodicPriceCheck ==
    /\ timers' = IF monitoringInterval # 0 THEN timers \ {monitoringInterval} ELSE timers
    /\ monitoringInterval' = 0
    /\ bgIsMonitoring' = FALSE

\* faulty variant of GetBackgroundFetchStatus: the two answers are swapped
GetBackgroundFetchStatusSwapped == IF bgIsMonitoring THEN "Inactive" ELSE "Active"

\* getBackgroundFetchStatus: "return this.isMonitoring ? 'Active' : 'Inactive'"
GetBackgroundFetchStatus == IF bgIsMonitoring THEN "Active" ELSE "Inactive"

(***************************************************************************)
(* Controller: useElectricityPriceMonitor                                  *)
(***************************************************************************)
NoError == "null"
FetchFailedMsg == "Failed to fetch price data"
ThrownMsg == "err.message"

\* faulty variant of AutoRefreshEffect: the effect returns no cleanup
AutoRefreshEffectNoCleanup(was, now, n) ==
    IF was = now THEN n ELSE n + (IF now THEN 1 ELSE 0)

\* the auto-refresh effect, re-run when isMonitoring changes: the cleanup of the
\* previous run clears its interval, the new run creates one while monitoring
AutoRefreshEffect(was, now, n) ==
    IF was = now THEN n
    ELSE (n - (IF was THEN 1 ELSE 0)) + (IF now THEN 1 ELSE 0)

SetIsMonitoring(v) ==
    /\ isMonitoring' = v
    /\ autoRefreshInterval' = AutoRefreshEffect(isMonitoring, v, autoRefreshInterval)

\* faulty variant of ShouldNotify: every fetched price is notified
ShouldNotifyAlways(priceData) == TRUE

\* refreshPrice: "if (priceData.isUnderThreshold)"
ShouldNotify(priceData) == priceData.isUnderThreshold

\* faulty variant of TickShouldNotify: the threshold flag is not looked at
TickShouldNotifyAnyPrice(priceData) == ~priceData.isNull

\* the timer body: "if (priceData && priceData.isUnderThreshold)"
TickShouldNotify(priceData) == ~priceData.isNull /\ priceData.isUnderThreshold

SystemIdle ==
    /\ ~isMonitoring /\ ~bgIsMonitoring /\ monitoringInterval = 0
    /\ timers = {} /\ autoRefreshInterval = 0 /\ ~StartInFlight

\* progress of two toggles made one after the other from Idle:
\* 1 first toggle running, 2 first done, 3 second running, 4 second done; 0 otherwise
RoundTripOnInvoke(viaToggle, starts) ==
    IF ~viaToggle THEN 0
    ELSE IF roundTrip \in {0, 4} /\ SystemIdle /\ starts THEN 1
    ELSE IF roundTrip = 2 THEN (IF starts THEN 3 ELSE 4)
    ELSE 0

RoundTripOnStartDone == IF roundTrip \in {1, 3} THEN roundTrip + 1 ELSE roundTrip

\* useState initial values; no effect has run yet
InitCore ==
    /\ monitoringInterval = 0
    /\ bgIsMonitoring = FALSE
    /\ timers = {}
    /\ currentPrice = Null
    /\ isLoading = FALSE
    /\ error = NoError
    /\ isMonitoring = FALSE
    /\ backgroundTaskStatus = "Unknown"
    /\ mounted = FALSE
    /\ autoRefreshInterval = 0
    /\ ops = EmptyBag
    /\ event = Step("init", "none")
    /\ noStartSinceStop = FALSE
    /\ roundTrip = 0
    /\ configured = FALSE
    /\ notifiedPoints = {}
    /\ latestPrice = Null

NoFetch == response = NoResponse /\ fetched = NotFetched /\ history = NotFetchedHistory
NoPermissionCall ==
    /\ permission = "undetermined" /\ promptCount = 0 /\ permissionCalls = 0
    /\ permissionCall = NotCalled

PlatformStep(op) ==
    [op |-> op, unregisterFailed |-> FALSE, cancelCalled |-> FALSE, cancelled |-> FALSE,
     removed |-> 0]

NoPlatformCall ==
    /\ registered = FALSE /\ pendingAlerts = [reminders |-> 0, others |-> 0]
    /\ platformOps = EmptyBag /\ platformEvent = PlatformStep("init")

Init == InitCore /\ NoFetch /\ NoPermissionCall /\ NoPlatformCall /\ recording = FALSE /\ ranking = FALSE

\* faulty variant of Mount: the status effect starts its interval without reading
\* the status first
MountWithoutCheck ==
    /\ ~mounted
    /\ mounted' = TRUE
    /\ event' = Step("Mount", "none")
    /\ UNCHANGED <<schedulerVars, currentPrice, latestPrice, isLoading, error, isMonitoring,
                   backgroundTaskStatus, autoRefreshInterval, ops, noStartSinceStop,
                   roundTrip, notifierVars, isolatedVars>>

\* first render: the status effect reads the status once and starts its 1-minute interval
Mount ==
    /\ ~mounted
    /\ mounted' = TRUE
    /\ backgroundTaskStatus' = GetBackgroundFetchStatus
    /\ event' = Step("Mount", "none")
    /\ UNCHANGED <<schedulerVars, currentPrice, latestPrice, isLoading, error, isMonitoring,
                   autoRefreshInterval, ops, noStartSinceStop, roundTrip, notifierVars,
                   isolatedVars>>

\* the 1-minute status interval fires
PollStatus ==
    /\ mounted
    /\ backgroundTaskStatus' = GetBackgroundFetchStatus
    /\ event' = Step("PollStatus", "none")
    /\ UNCHANGED <<schedulerVars, currentPrice, latestPrice, isLoading, error, isMonitoring, mounted,
                   autoRefreshInterval, ops, noStartSinceStop, roundTrip, notifierVars,
                   isolatedVars>>

\* refreshPrice up to  await fetchCurrentPrice()
RefreshBegin(newOps) ==
    /\ isLoading' = TRUE
    /\ error' = NoError
    /\ ops' = newOps

\* a manual refresh
RefreshPrice ==
    /\ mounted
    /\ CanCall
    /\ RefreshBegin(Begun(Refreshing(Call("refresh", "begun"))))
    /\ event' = Step("RefreshPrice", "none")
    /\ UNCHANGED <<schedulerVars, currentPrice, latestPrice, isMonitoring, backgroundTaskStatus, mounted,
                   autoRefreshInterval, noStartSinceStop, roundTrip, notifierVars,
                   isolatedVars>>

\* the 5-minute auto-refresh interval fires
AutoRefreshTick ==
    /\ autoRefreshInterval > 0
    /\ CanCall
    /\ RefreshBegin(Begun(Refreshing(Call("refresh", "begun"))))
    /\ event' = Step("AutoRefreshTick", "none")
    /\ UNCHANGED <<schedulerVars, currentPrice, latestPrice, isMonitoring, backgroundTaskStatus, mounted,
                   autoRefreshInterval, noStartSinceStop, roundTrip, notifierVars,
                   isolatedVars>>

\* faulty variant of AfterSchedulerStart: setIsMonitoring(true) is called before the
\* refresh instead of after it
AfterSchedulerStartSetsMonitoring == SetIsMonitoring(TRUE)

\* startMonitoring between  await startPeriodicPriceCheck()  and  await refreshPrice():
\* no state is set there
AfterSchedulerStart == UNCHANGED <<isMonitoring, autoRefreshInterval>>

\* startMonitoring up to its first suspension: startPeriodicPriceCheck either returns at
\* once (already active) and refreshPrice begins, or awaits the configuration
StartMonitoring(viaToggle) ==
    /\ mounted
    /\ CanCall
    /\ IF AlreadyMonitoring
       THEN /\ AfterSchedulerStart
            /\ RefreshBegin(Begun(Refreshing(Call("start", "begun"))))
            /\ event' = Step("StartMonitoring", "alreadyActive")
       ELSE /\ ops' = Begun(Call("start", "configuring"))
            /\ event' = Step("StartMonitoring", "configure")
            /\ UNCHANGED <<isLoading, error, isMonitoring, autoRefreshInterval>>
    /\ noStartSinceStop' = FALSE
    /\ roundTrip' = RoundTripOnInvoke(viaToggle, TRUE)
    /\ UNCHANGED <<schedulerVars, currentPrice, latestPrice, backgroundTaskStatus, mounted, notifierVars,
                   isolatedVars>>

\* the configuration settles: startPeriodicPriceCheck finishes, refreshPrice begins
StartConfigured(c, outcome) ==
    /\ c.kind = "start" /\ c.pc = "configuring"
    /\ LET cfg == ConfigurePushNotifications(outcome)
           started == StartPeriodicPriceCheck(cfg)
           step == [Step("StartConfigured", IF cfg.threw THEN "configureThrew" ELSE outcome)
                        EXCEPT !.outcome = outcome]
       IN  /\ cfg.threw \/ Cardinality(timers) < MaxTimers
           /\ StartPeriodicPriceCheckResume(cfg)
           /\ configured' = (configured \/ (recording /\ ~cfg.threw))
           /\ IF started.threw
              THEN /\ error' = ThrownMsg          \* startMonitoring's catch block
                   /\ ops' = Ended(c)
                   /\ event' = [step EXCEPT !.threw = TRUE]
                   /\ UNCHANGED isLoading
              ELSE /\ RefreshBegin(Moved(c, [Refreshing(c) EXCEPT
                                                 !.configureThrew = recording /\ cfg.threw]))
                   /\ event' = step
    /\ AfterSchedulerStart
    /\ UNCHANGED <<currentPrice, latestPrice, backgroundTaskStatus, mounted, noStartSinceStop, roundTrip,
                   notifiedPoints, isolatedVars>>

\* the finally block of refreshPrice; in startMonitoring then setIsMonitoring(true)
\* and setError(null)
FinishRefresh(c, calls, err, fetchedAs, delivery) ==
    /\ isLoading' = FALSE
    /\ IF c.kind = "start"
       THEN /\ SetIsMonitoring(TRUE)
            /\ error' = NoError
            /\ roundTrip' = RoundTripOnStartDone
       ELSE /\ error' = err
            /\ UNCHANGED <<isMonitoring, autoRefreshInterval, roundTrip>>
    /\ ops' = EndedOf(calls, c)
    /\ event' = Finished(c, fetchedAs, delivery)

\* faulty variant of PriceAfterFetch: a failed fetch clears the displayed price
PriceAfterFetchClears(r) ==
    IF ~r.threw /\ ~r.value.isNull THEN r.value ELSE Null

\* faulty variant of PriceAfterFetch: setCurrentPrice(priceData) without "if (priceData)"
PriceAfterFetchUnguarded(r) ==
    IF ~r.threw THEN r.value ELSE currentPrice

\* refreshPrice: setCurrentPrice(priceData) runs only under "if (priceData)"
PriceAfterFetch(r) ==
    IF ~r.threw /\ ~r.value.isNull THEN r.value ELSE currentPrice

\* the fetch of a refreshPrice call settles
RefreshFetched(c, resp) ==
    /\ c.kind \in {"refresh", "start"} /\ c.pc = "fetching"
    /\ LET r == FetchCurrentPrice(resp)
           got == ~r.threw /\ ~r.value.isNull
           err == IF r.threw THEN ThrownMsg ELSE IF got THEN error ELSE FetchFailedMsg
           calls == Overtaking(c, got)
       IN  /\ currentPrice' = PriceAfterFetch(r)
           /\ latestPrice' = IF ranking /\ got /\ ~c.overtaken THEN r.value
                              ELSE latestPrice
           /\ IF got /\ ShouldNotify(r.value)
              THEN /\ ops' = MovedOf(calls, c,
                                     [c EXCEPT !.pc = "notifying", !.notifyCalls = @ + 1,
                                               !.fetchedAs = FetchedAs(r),
                                               !.timestamp = r.value.timestamp])
                   /\ event' = StepOf(c, "RefreshFetched", "notify")
                   /\ UNCHANGED <<isLoading, error, isMonitoring, autoRefreshInterval,
                                  roundTrip>>
              ELSE FinishRefresh(c, calls, err, FetchedAs(r), "none")
    /\ UNCHANGED <<schedulerVars, backgroundTaskStatus, mounted, noStartSinceStop,
                   notifierVars, isolatedVars>>

\* the notification call of a refreshPrice call settles
RefreshNotified(c, delivered) ==
    /\ c.kind \in {"refresh", "start"} /\ c.pc = "notifying"
    /\ LET n == SendLowPriceNotification(delivered)
       IN  FinishRefresh(c, ops, IF n.threw THEN ThrownMsg ELSE error, c.fetchedAs,
                         Delivery(delivered))
    /\ notifiedPoints' = IF recording /\ delivered THEN notifiedPoints \cup {c.timestamp}
                         ELSE notifiedPoints
    /\ UNCHANGED <<schedulerVars, currentPrice, latestPrice, backgroundTaskStatus, mounted,
                   noStartSinceStop, configured, isolatedVars>>

\* stopMonitoring: stopPeriodicPriceCheck, setIsMonitoring(false), setError(null)
StopMonitoring(viaToggle) ==
    /\ mounted
    /\ StopPeriodicPriceCheck
    /\ SetIsMonitoring(FALSE)
    /\ error' = NoError
    /\ noStartSinceStop' = TRUE
    /\ roundTrip' = RoundTripOnInvoke(viaToggle, FALSE)
    /\ event' = Step("StopMonitoring", IF bgIsMonitoring THEN "wasActive" ELSE "wasIdle")
    /\ ops' = BagOfAll(MarkStale, ops)
    /\ UNCHANGED <<currentPrice, latestPrice, isLoading, backgroundTaskStatus, mounted, notifierVars,
                   isolatedVars>>

\* toggleMonitoring
ToggleMonitoring ==
    IF isMonitoring THEN StopMonitoring(TRUE) ELSE StartMonitoring(TRUE)

\* faulty variant of TickCatch: a tick whose fetch or notification failed stops
\* the monitoring
TickCatchStops(failed) ==
    IF failed THEN StopPeriodicPriceCheck ELSE UNCHANGED schedulerVars

\* the timer body after a failed fetch (null) or a failed notification (logged inside
\* sendLowPriceNotification), and its own catch block: logging only, the interval and
\* the Scheduler's fields are not touched
TickCatch(failed) == UNCHANGED schedulerVars

\* a Scheduler interval fires: the timer body up to  await fetchCurrentPrice()
SchedulerTick(t) ==
    /\ t \in timers
    /\ CanCall
    /\ ops' = Begun(Call("tick", "fetching"))
    /\ event' = Step("SchedulerTick", "none")
    /\ UNCHANGED <<schedulerVars, hookVars, latestPrice, noStartSinceStop, roundTrip, notifierVars,
                   isolatedVars>>

\* the fetch of a timer body settles
TickFetched(c, resp) ==
    /\ c.kind = "tick" /\ c.pc = "fetching"
    /\ LET r == FetchCurrentPrice(resp)
       IN  IF ~r.threw /\ TickShouldNotify(r.value)
           THEN /\ ops' = Moved(c, [c EXCEPT !.pc = "notifying", !.notifyCalls = @ + 1,
                                                 !.fetchedAs = FetchedAs(r),
                                                 !.timestamp = r.value.timestamp])
                /\ event' = StepOf(c, "TickFetched", "notify")
                /\ TickCatch(FALSE)
           ELSE /\ ops' = Ended(c)
                /\ event' = Finished(c, FetchedAs(r), "none")
                /\ TickCatch(r.threw \/ r.value.isNull)
    /\ UNCHANGED <<hookVars, latestPrice, noStartSinceStop, roundTrip, notifierVars, isolatedVars>>

\* the notification call of a timer body settles
TickNotified(c, delivered) ==
    /\ c.kind = "tick" /\ c.pc = "notifying"
    /\ LET n == SendLowPriceNotification(delivered)
       IN  TickCatch(n.threw \/ ~delivered)
    /\ ops' = Ended(c)
    /\ event' = Finished(c, c.fetchedAs, Delivery(delivered))
    /\ notifiedPoints' = IF recording /\ delivered THEN notifiedPoints \cup {c.timestamp}
                         ELSE notifiedPoints
    /\ UNCHANGED <<hookVars, latestPrice, noStartSinceStop, roundTrip, configured, isolatedVars>>

Next ==
    \/ Mount
    \/ PollStatus
    \/ RefreshPrice
    \/ AutoRefreshTick
    \/ StartMonitoring(FALSE)
    \/ StopMonitoring(FALSE)
    \/ ToggleMonitoring
    \/ \E c \in InFlight, outcome \in ConfigOutcomes : StartConfigured(c, outcome)
    \/ \E c \in InFlight, resp \in SampleResponses : RefreshFetched(c, resp)
    \/ \E c \in InFlight, delivered \in BOOLEAN : RefreshNotified(c, delivered)
    \/ \E t \in TimerIds : SchedulerTick(t)
    \/ \E c \in InFlight, resp \in SampleResponses : TickFetched(c, resp)
    \/ \E c \in InFlight, delivered \in BOOLEAN : TickNotified(c, delivered)

Spec == Init /\ [][Next]_vars

\* the same program under fair firing of the status effect: the first render runs the
\* effects, and the runtime fires the 1-minute status interval again and again
LiveSpec == Spec /\ WF_vars(Mount) /\ WF_vars(PollStatus)

\* the same program, with the history of its calls recorded
HistoryInit ==
    InitCore /\ NoFetch /\ NoPermissionCall /\ NoPlatformCall /\ recording = TRUE /\ ranking = FALSE

HistorySpec == HistoryInit /\ [][Next]_vars

\* the same program, with the order in which its refreshPrice calls began recorded
OrderInit ==
    InitCore /\ NoFetch /\ NoPermissionCall /\ NoPlatformCall /\ recording = FALSE /\ ranking = TRUE

OrderSpec == OrderInit /\ [][Next]_vars

(***************************************************************************)
(* The Price Fetcher alone, over every response within the bounds          *)
(***************************************************************************)
FetchInit ==
    /\ InitCore /\ NoPermissionCall /\ NoPlatformCall /\ recording = FALSE /\ ranking = FALSE
    /\ response \in Responses /\ fetched = NotFetched /\ history = NotFetchedHistory

FetchApply ==
    /\ ~fetched.done
    /\ LET r == FetchCurrentPrice(response)
       IN  fetched' = [done |-> TRUE, threw |-> r.threw, value |-> r.value]
    /\ LET h == GetPriceHistory(response)
       IN  history' = [done |-> TRUE, threw |-> h.threw, items |-> h.items]
    /\ UNCHANGED <<monitorVars, permissionVars, platformVars, recording, ranking, response>>

FetchNext == FetchApply

FetchSpec == FetchInit /\ [][FetchNext]_vars

(***************************************************************************)
(* requestPermissions alone, over the platform's statuses and answers      *)
(***************************************************************************)
PermissionInit ==
    /\ InitCore /\ NoFetch /\ NoPlatformCall /\ recording = FALSE /\ ranking = FALSE
    /\ permission \in PermissionStatuses
    /\ promptCount = 0 /\ permissionCalls = 0 /\ permissionCall = NotCalled

RequestPermissionsCall(answer) ==
    /\ permissionCalls < MaxPermissionCalls
    /\ LET r == RequestPermissions(permission, answer)
       IN  /\ permissionCall' = r
           /\ permission' = r.finalStatus
           /\ promptCount' = promptCount + r.prompts
    /\ permissionCalls' = permissionCalls + 1
    /\ UNCHANGED <<monitorVars, fetchVars, platformVars, recording, ranking>>

\* the user changes the permission in the system settings
PermissionChanged(status) ==
    /\ status # permission
    /\ permission' = status
    /\ UNCHANGED <<monitorVars, fetchVars, platformVars, recording, ranking, promptCount,
                   permissionCalls, permissionCall>>

PermissionNext ==
    \/ \E answer \in PromptAnswers : RequestPermissionsCall(answer)
    \/ \E status \in PermissionStatuses : PermissionChanged(status)

PermissionSpec == PermissionInit /\ [][PermissionNext]_vars

(***************************************************************************)
(* The platform-scheduled BackgroundTaskService (backgroundTaskService.ts) *)
(* alone: a registered background fetch task and a daily reminder          *)
(***************************************************************************)
\* pending entries left by an earlier run of the application
PlatformInit ==
    /\ InitCore /\ NoFetch /\ NoPermissionCall /\ recording = FALSE /\ ranking = FALSE
    /\ registered \in BOOLEAN
    /\ pendingAlerts \in [reminders : 0..1, others : 0..1]
    /\ platformOps = EmptyBag /\ platformEvent = PlatformStep("init")

PlatformCall(kind, pc) == [kind |-> kind, pc |-> pc, unregisterFailed |-> FALSE]

PlatformInFlight == BagToSet(platformOps)
PlatformMoved(c, d) == (platformOps (-) SetToBag({c})) (+) SetToBag({d})
PlatformEnded(c) == platformOps (-) SetToBag({c})

\* registerBackgroundTask: a failure of registerTaskAsync is logged in its catch block
RegisterBackgroundTask(ok) ==
    LET try == IF ok THEN Returned(Null) ELSE Threw
    IN  IF try.threw THEN Returned(Null) ELSE try

\* faulty variant of UnregisterBackgroundTask: the failure is thrown on
UnregisterBackgroundTaskRethrows(ok) ==
    IF ok THEN Returned(Null) ELSE Threw

\* unregisterBackgroundTask: a failure of unregisterTaskAsync is logged in its catch block
UnregisterBackgroundTask(ok) ==
    LET try == IF ok THEN Returned(Null) ELSE Threw
    IN  IF try.threw THEN Returned(Null) ELSE try

\* schedulePeriodicCheck: no try/catch around scheduleNotificationAsync
SchedulePeriodicCheck(ok) == IF ok THEN Returned(Null) ELSE Threw

\* cancelAllNotifications: no try/catch around cancelAllScheduledNotificationsAsync
CancelAllNotifications(ok) == IF ok THEN Returned(Null) ELSE Threw

\* startPeriodicPriceCheck up to  await this.registerBackgroundTask()
PlatformStart ==
    /\ BagCardinality(platformOps) < MaxPlatformOps
    /\ platformOps' = platformOps (+) SetToBag({PlatformCall("start", "registering")})
    /\ platformEvent' = PlatformStep("Start")
    /\ UNCHANGED <<monitorVars, fetchVars, permissionVars, recording, ranking, registered,
                   pendingAlerts>>

\* the registration settles; startPeriodicPriceCheck goes on to schedulePeriodicCheck
PlatformRegistered(c, ok) ==
    /\ c.kind = "start" /\ c.pc = "registering"
    /\ registered' = (registered \/ ok)
    /\ LET r == RegisterBackgroundTask(ok)
       IN  IF r.threw
           THEN /\ platformOps' = PlatformEnded(c)
                /\ platformEvent' = PlatformStep("StartDone")
           ELSE /\ platformOps' = PlatformMoved(c, [c EXCEPT !.pc = "scheduling"])
                /\ platformEvent' = PlatformStep("Registered")
    /\ UNCHANGED <<monitorVars, fetchVars, permissionVars, recording, ranking, pendingAlerts>>

\* the scheduling of the daily reminder settles; startPeriodicPriceCheck ends
PlatformScheduled(c, ok) ==
    /\ c.kind = "start" /\ c.pc = "scheduling"
    /\ LET r == SchedulePeriodicCheck(ok)
       IN  IF r.threw
           THEN UNCHANGED pendingAlerts
           ELSE /\ pendingAlerts.reminders < MaxPending
                /\ pendingAlerts' = [pendingAlerts EXCEPT !.reminders = @ + 1]
    /\ platformOps' = PlatformEnded(c)
    /\ platformEvent' = PlatformStep("StartDone")
    /\ UNCHANGED <<monitorVars, fetchVars, permissionVars, recording, ranking, registered>>

\* stopPeriodicPriceCheck up to  await this.unregisterBackgroundTask()
PlatformStop ==
    /\ BagCardinality(platformOps) < MaxPlatformOps
    /\ platformOps' = platformOps (+) SetToBag({PlatformCall("stop", "unregistering")})
    /\ platformEvent' = PlatformStep("Stop")
    /\ UNCHANGED <<monitorVars, fetchVars, permissionVars, recording, ranking, registered,
                   pendingAlerts>>

\* the unregistration settles; stopPeriodicPriceCheck goes on to cancelAllNotifications,
\* or to its catch block if unregisterBackgroundTask threw
PlatformUnregistered(c, ok) ==
    /\ c.kind = "stop" /\ c.pc = "unregistering"
    /\ registered' = (registered /\ ~ok)
    /\ LET r == UnregisterBackgroundTask(ok)
       IN  IF r.threw
           THEN /\ platformOps' = PlatformEnded(c)
                /\ platformEvent' = [PlatformStep("StopDone") EXCEPT !.unregisterFailed = ~ok]
           ELSE /\ platformOps' = PlatformMoved(c, [c EXCEPT !.pc = "cancelling",
                                                            !.unregisterFailed = ~ok])
                /\ platformEvent' = PlatformStep("Unregistered")
    /\ UNCHANGED <<monitorVars, fetchVars, permissionVars, recording, ranking, pendingAlerts>>

\* the cancellation settles; stopPeriodicPriceCheck ends (its catch block logs a failure)
PlatformCancelled(c, ok) ==
    /\ c.kind = "stop" /\ c.pc = "cancelling"
    /\ LET r == CancelAllNotifications(ok)
       IN  /\ pendingAlerts' = IF r.threw THEN pendingAlerts
                               ELSE [reminders |-> 0, others |-> 0]
           /\ platformEvent' =
                [PlatformStep("StopDone") EXCEPT
                    !.unregisterFailed = c.unregisterFailed, !.cancelCalled = TRUE,
                    !.cancelled = ~r.threw,
                    !.removed = IF r.threw THEN 0
                                ELSE pendingAlerts.reminders + pendingAlerts.others]
    /\ platformOps' = PlatformEnded(c)
    /\ UNCHANGED <<monitorVars, fetchVars, permissionVars, recording, ranking, registered>>

PlatformNext ==
    \/ PlatformStart
    \/ PlatformStop
    \/ \E c \in PlatformInFlight, ok \in BOOLEAN : PlatformRegistered(c, ok)
    \/ \E c \in PlatformInFlight, ok \in BOOLEAN : PlatformScheduled(c, ok)
    \/ \E c \in PlatformInFlight, ok \in BOOLEAN : PlatformUnregistered(c, ok)
    \/ \E c \in PlatformInFlight, ok \in BOOLEAN : PlatformCancelled(c, ok)

PlatformSpec == PlatformInit /\ [][PlatformNext]_vars

(***************************************************************************)
(* Properties                                                              *)
(***************************************************************************)
ActiveTimers == Cardinality(timers)

\* C1: in every reachable state the Controller's isMonitoring is true only if the
\* Scheduler has an active repeating timer, and false only if no timer is active.
C1_MonitoringIffTimer ==
    /\ isMonitoring => ActiveTimers > 0
    /\ ~isMonitoring => ActiveTimers = 0

\* C2: at most one Scheduler repeating timer is active at any time, for every
\* interleaving of start() calls.
C2_AtMostOneTimer == ActiveTimers <= 1

\* C3: a start() made when an earlier start() has run to completion and left the
\* Scheduler Running with its one timer is a no-op: no timer is created, the handle
\* and the flag are unchanged, configuration is not called again (no call is left
\* suspended in the configuration), and exactly one timer is active afterwards.
C3_SecondStartIsNoOp ==
    [][(event'.op = "StartMonitoring" /\ bgIsMonitoring /\ timers = {monitoringInterval})
        => /\ timers' = timers
           /\ monitoringInterval' = monitoringInterval
           /\ bgIsMonitoring'
           /\ Cardinality(timers') = 1
           /\ event'.info = "alreadyActive"
           /\ CopiesIn(Call("start", "configuring"), ops')
                = CopiesIn(Call("start", "configuring"), ops)]_vars

C3_Witness ==
    /\ event.op = "StartMonitoring" /\ event.info = "alreadyActive"
    /\ bgIsMonitoring /\ timers = {monitoringInterval}
    /\ BagIn(Refreshing(Call("start", "begun")), ops)

\* C4: once a stop() has completed and no start() was invoked after it, the Scheduler
\* is Idle with zero active timers and no tick fires, whatever preceded the stop().
C4_IdleAfterStop ==
    noStartSinceStop =>
        /\ ActiveTimers = 0
        /\ ~bgIsMonitoring
        /\ monitoringInterval = 0
        /\ event.op # "SchedulerTick"

\* C5: from Idle, two toggle() calls, each run to completion before the next, return
\* the system to Idle: isMonitoring false, Scheduler Idle, no Scheduler timer and no
\* auto-refresh timer.
C5_ToggleTwiceIsIdle ==
    roundTrip = 4 =>
        /\ ~isMonitoring
        /\ ~bgIsMonitoring
        /\ monitoringInterval = 0
        /\ ActiveTimers = 0
        /\ autoRefreshInterval = 0

C5_Witness == roundTrip = 4 /\ event.op = "StopMonitoring" /\ event.info = "wasActive"

\* C6: stop() called while the Scheduler is Idle leaves the Scheduler unchanged (flag
\* false, no handle, status Inactive) and does not throw (the Controller's catch
\* block does not run: no error is set).
C6_StopWhenIdleIsNoOp ==
    [][(event'.op = "StopMonitoring" /\ ~bgIsMonitoring /\ monitoringInterval = 0)
        => /\ UNCHANGED schedulerVars
           /\ GetBackgroundFetchStatus' = "Inactive"
           /\ error' = NoError]_vars

C6_Witness ==
    /\ event.op = "StopMonitoring" /\ event.info = "wasIdle"
    /\ ~bgIsMonitoring /\ monitoringInterval = 0

\* the decimal a well-formed string  [-] digits [ . digits ]  denotes, by place value
IsDecimal(str) ==
    LET u == IF str # <<>> /\ Head(str) = "-" THEN Tail(str) ELSE str
        dots == {i \in 1..Len(u) : u[i] = "."}
    IN  /\ u # <<>>
        /\ \A i \in 1..Len(u) : u[i] \in Digits \cup {"."}
        /\ Cardinality(dots) <= 1
        /\ \A i \in dots : 1 < i /\ i < Len(u)

DecimalValue(str) ==
    LET neg == Head(str) = "-"
        u == IF neg THEN Tail(str) ELSE str
        dots == {i \in 1..Len(u) : u[i] = "."}
        places == IF dots = {} THEN 0 ELSE Len(u) - (CHOOSE i \in dots : TRUE)
        all == DigitsValue(SelectSeq(u, LAMBDA ch : ch \in Digits))
    IN  Normalize(IF neg THEN 0 - all ELSE all, Pow10(places))

FetchedFromFeed ==
    /\ fetched.done
    /\ response.net = "ok" /\ response.ok
    /\ response.body.kind = "array" /\ Len(response.body.items) > 0

\* C7: for a status-OK response with a non-empty array, fetchCurrentPrice returns a
\* price point whose price is the parsed decimal of element 0's price field and whose
\* isUnderThreshold is (price < 8.0), strictly: exactly 8.0 is not under threshold.
C7_PriceOfElementZero ==
    FetchedFromFeed =>
        LET str == response.body.items[1].price
            p == fetched.value.price
        IN  /\ ~fetched.threw /\ ~fetched.value.isNull
            /\ p = parseFloat(str)
            /\ IsDecimal(str) => p = DecimalValue(str)
            /\ fetched.value.isUnderThreshold = (~p.nan /\ p.num < PRICE_THRESHOLD * p.den)
            /\ (~p.nan /\ p.num = PRICE_THRESHOLD * p.den) => ~fetched.value.isUnderThreshold

C7_Witness ==
    /\ FetchedFromFeed
    /\ Len(response.body.items) = 2
    /\ response.body.items[1].price = <<"8", ".", "0">>
    /\ ~fetched.value.isNull /\ ~fetched.value.isUnderThreshold

FailedResponse ==
    \/ response.net = "error"
    \/ ~response.ok
    \/ response.body.kind = "null"
    \/ response.body.kind = "array" /\ Len(response.body.items) = 0

C9_MalformedIsFetchFailed ==
    (FetchedFromFeed /\ (parseFloat(response.body.items[1].price).nan
                          \/ parseInt(response.body.items[1].millisUTC).nan))
        => fetched.value.isNull

\* C10: a refreshPrice call (a manual or auto refresh, or the one inside
\* startMonitoring) has called sendLowPriceNotification exactly once when its fetch
\* gave a price under threshold and not at all otherwise, Scheduler running or not.
C10_NotifyOncePerRefresh ==
    (event.op = "Finish" /\ event.completed \in {"refresh", "start"})
        => event.notifyCalls = (IF event.fetchedAs = "under" THEN 1 ELSE 0)

C10_Witness ==
    /\ event.op = "Finish" /\ event.completed = "refresh"
    /\ event.fetchedAs = "under" /\ event.notifyCalls = 1
    /\ ~bgIsMonitoring

\* C11: when the fetch of a refreshPrice call fails, the call completes (it does not
\* throw) with isLoading false and error set to a non-empty description, and it
\* leaves currentPrice as it was.
C11_FailedRefresh ==
    [][(event'.op = "Finish" /\ event'.completed = "refresh" /\ event'.fetchedAs = "failed")
        => /\ isLoading' = FALSE
           /\ error' = FetchFailedMsg /\ error' # NoError
           /\ currentPrice' = currentPrice]_vars

C11_Witness ==
    /\ event.op = "Finish" /\ event.completed = "refresh" /\ event.fetchedAs = "failed"
    /\ ~currentPrice.isNull /\ ~isLoading /\ error = FetchFailedMsg

\* C12: when the configuration step of the Scheduler's start fails during a
\* startMonitoring call, the call completes with a non-empty error and with
\* isMonitoring still false.
C12_ConfigureFailureSurfaced ==
    (event.op = "Finish" /\ event.completed = "start" /\ event.configureThrew)
        => (error # NoError /\ ~isMonitoring)

\* C13: every Scheduler tick is isolated. The steps of a tick, its fetch or its
\* notification having failed or not, leave the interval, the handle and the flag as
\* they were; and whenever the Scheduler is Running its interval is live, so that a
\* further tick can fire after any number of failing ticks.
TickStep ==
    \/ event'.op \in {"SchedulerTick", "TickFetched"}
    \/ event'.op = "Finish" /\ event'.completed = "tick"

C13_TickIsolated ==
    /\ [][TickStep => UNCHANGED schedulerVars]_vars
    /\ [](bgIsMonitoring => /\ monitoringInterval \in timers
                            /\ CanCall => ENABLED (\E t \in TimerIds : SchedulerTick(t)))

C13_Witness ==
    /\ event.op = "Finish" /\ event.completed = "tick"
    /\ event.fetchedAs = "failed" \/ event.delivery = "failed"
    /\ bgIsMonitoring /\ monitoringInterval \in timers /\ CanCall

C15_RequestPermissions ==
    [][permissionCalls' = permissionCalls + 1
        => /\ permission = "granted"
                => (promptCount' = promptCount /\ permissionCall'.returned = TRUE)
           /\ permission # "granted"
                => /\ promptCount' = promptCount + 1
                   /\ permissionCall'.returned = (permission' = "granted")]_vars

C15_Witness ==
    /\ permissionCalls >= 3 /\ promptCount = 1
    /\ permissionCall.existingStatus = "granted" /\ permissionCall.returned

\* C16: a fetch in flight when monitoring is stopped has its result discarded: once
\* stopMonitoring has completed (and no start was invoked since), the step in which
\* that fetch settles changes neither currentPrice nor error and makes no
\* sendLowPriceNotification call.
FetchSettles ==
    \/ event'.op \in {"RefreshFetched", "TickFetched"}
    \/ event'.op = "Finish" /\ event'.delivery = "none"

C16_StaleFetchDiscarded ==
    [][(FetchSettles /\ event'.stale /\ noStartSinceStop)
        => /\ currentPrice' = currentPrice
           /\ error' = error
           /\ event'.info # "notify"]_vars

\* C17: the low-price notification is deduplicated: when the same qualifying price
\* point (the same element 0 of the feed) is seen by more than one fetch, at most one
\* notification is delivered for it, that is, every delivered notification is the
\* first one for its price point.
C17_NotificationDeduplicated ==
    [][(event'.op = "Finish" /\ event'.delivery = "delivered")
        => notifiedPoints' # notifiedPoints]_vars

\* C18: every delivery of a low-price notification is preceded by a completed
\* configurePushNotifications call, also when it comes from a refreshPrice call made
\* before monitoring was ever started.
C18_ConfiguredBeforeDelivery ==
    (event.op = "Finish" /\ event.delivery = "delivered") => configured

C20_StartOrder ==
    /\ [](\A c \in InFlight :
            c.kind = "start" => c.refreshes = (IF c.pc = "configuring" THEN 0 ELSE 1))
    /\ []((event.op = "Finish" /\ event.completed = "start") => event.refreshes = 1)
    /\ [][(isMonitoring' /\ ~isMonitoring)
            => (event'.op = "Finish" /\ event'.completed = "start" /\ ~isLoading')]_vars

C20_Witness ==
    /\ event.op = "Finish" /\ event.completed = "start" /\ event.refreshes = 1
    /\ isMonitoring /\ ~isLoading /\ bgIsMonitoring

\* C21: whenever a fetch begun by the Controller fails, that of the refresh made
\* inside startMonitoring included, error is non-empty when the Controller operation
\* that began it completes.
C21_FailedFetchSurfaced ==
    (event.op = "Finish" /\ event.completed \in {"refresh", "start"}
                         /\ event.fetchedAs = "failed")
        => error # NoError

\* C22: the Controller's 5-minute auto-refresh interval is live exactly while
\* isMonitoring is true (created when it becomes true, cleared when it becomes false),
\* there is never more than one, and no refresh is begun by it while isMonitoring is
\* false.
C22_AutoRefreshWhileMonitoring ==
    /\ [](autoRefreshInterval = IF isMonitoring THEN 1 ELSE 0)
    /\ [][event'.op = "AutoRefreshTick" => (isMonitoring /\ isMonitoring')]_vars

C22_Witness ==
    /\ event.op = "AutoRefreshTick" /\ isMonitoring /\ autoRefreshInterval = 1
    /\ \E c \in InFlight : c.kind = "refresh" /\ c.pc = "fetching"

\* C23: the status poll runs whatever isMonitoring is; each poll sets
\* backgroundTaskStatus to what getBackgroundFetchStatus answers at that instant
\* (between polls it may lag); and under fair firing of the poll, once the Scheduler's
\* flag stops changing, backgroundTaskStatus eventually equals the Scheduler's status
\* and stays so.
C23_StatusPoll ==
    /\ [](mounted => ENABLED PollStatus)
    /\ [][event'.op \in {"Mount", "PollStatus"}
            => backgroundTaskStatus' = (IF bgIsMonitoring THEN "Active" ELSE "Inactive")]_vars
    /\ <>[]bgIsMonitoring => <>[](backgroundTaskStatus = "Active")
    /\ <>[](~bgIsMonitoring) => <>[](backgroundTaskStatus = "Inactive")

C23_Witness ==
    /\ event.op = "PollStatus" /\ ~isMonitoring
    /\ bgIsMonitoring /\ backgroundTaskStatus = "Active"

\* C24: getBackgroundFetchStatus reflects the Scheduler's state: in every reachable
\* state it answers Active if and only if at least one Scheduler interval is live, and
\* Inactive if and only if none is.
C24_StatusIffTimer ==
    /\ GetBackgroundFetchStatus = "Active" <=> ActiveTimers > 0
    /\ GetBackgroundFetchStatus = "Inactive" <=> ActiveTimers = 0

\* C25: isLoading is true in every state in which a refreshPrice call is in progress
\* (a manual refresh, an auto-refresh, the refresh of startMonitoring; several may
\* overlap), and false when none is.
RefreshInProgress ==
    \E c \in InFlight : c.kind \in {"refresh", "start"} /\ c.pc \in {"fetching", "notifying"}

C25_LoadingIffRefreshing == isLoading <=> RefreshInProgress

\* C26: once currentPrice holds a price point no step resets it to null (no failed
\* refresh, start, stop, toggle or status poll); it changes only in the step in which
\* a refreshPrice call's fetch succeeded, to the price point fetched.
C26_PriceNeverReset ==
    [][~currentPrice.isNull
        => /\ ~currentPrice'.isNull
           /\ currentPrice' # currentPrice
                => \/ /\ event'.op = "RefreshFetched" /\ event'.info = "notify"
                      /\ currentPrice'.isUnderThreshold
                   \/ /\ event'.op = "Finish" /\ event'.completed \in {"refresh", "start"}
                      /\ event'.fetchedAs = "notUnder" /\ event'.delivery = "none"
                      /\ ~currentPrice'.isUnderThreshold]_vars

C26_Witness ==
    /\ event.op = "StopMonitoring" /\ event.info = "wasActive"
    /\ ~currentPrice.isNull /\ ~currentPrice.isUnderThreshold

\* C27: a Scheduler tick calls sendLowPriceNotification if and only if its fetch
\* succeeded and the price point is under the threshold: a tick awaiting its
\* notification fetched such a point and made one call, and a completed tick made one
\* call if it fetched such a point and none otherwise (failed fetch, price not under).
C27_TickNotifiesIffUnder ==
    /\ \A c \in InFlight :
         (c.kind = "tick" /\ c.pc = "notifying")
            => (c.fetchedAs = "under" /\ c.notifyCalls = 1)
    /\ (event.op = "Finish" /\ event.completed = "tick")
            => event.notifyCalls = (IF event.fetchedAs = "under" THEN 1 ELSE 0)

C27_Witness ==
    /\ event.op = "Finish" /\ event.completed = "tick"
    /\ event.fetchedAs = "under" /\ event.notifyCalls = 1 /\ event.delivery = "delivered"

\* C28: startPeriodicPriceCheck throws to its caller when the configuration of the
\* notifications fails.
C28_StartThrowsOnConfigureFailure ==
    (event.op = "StartConfigured" /\ event.info = "configureThrew") => event.threw

\* C29: backgroundTaskStatus takes only the values Active and Inactive in every
\* reachable state, and in the initial state every field of the hook's state is
\* empty or false: currentPrice null, isLoading false, error null, isMonitoring false,
\* backgroundTaskStatus Inactive.
C29_StatusActiveOrInactive ==
    /\ backgroundTaskStatus \in {"Active", "Inactive"}
    /\ event.op = "init"
         => /\ currentPrice.isNull /\ ~isLoading /\ error = NoError /\ ~isMonitoring
            /\ backgroundTaskStatus = "Inactive"

\* C29, amended: backgroundTaskStatus is Unknown from the initial state until the
\* status effect has run at mount, and Active or Inactive from then on; in the
\* initial state currentPrice is null, isLoading false, error null, isMonitoring
\* false and backgroundTaskStatus Unknown.
C29_StatusUnknownUntilMount ==
    /\ backgroundTaskStatus \in {"Unknown", "Active", "Inactive"}
    /\ backgroundTaskStatus = "Unknown" <=> ~mounted
    /\ event.op = "init"
         => /\ currentPrice.isNull /\ ~isLoading /\ error = NoError /\ ~isMonitoring
            /\ backgroundTaskStatus = "Unknown"

C29_Witness ==
    /\ event.op = "Mount" /\ mounted /\ backgroundTaskStatus = "Inactive"
    /\ currentPrice.isNull /\ ~isLoading /\ error = NoError /\ ~isMonitoring

C31_FlagIffHandle == bgIsMonitoring <=> monitoringInterval # 0

C31_Witness ==
    /\ bgIsMonitoring /\ monitoringInterval # 0
    /\ \E c \in InFlight : c.kind = "start" /\ c.pc = "configuring"

\* C32: the Scheduler calls sendLowPriceNotification only while it is Running: no
\* tick makes the call in a state where the Scheduler is Idle, a tick whose fetch was
\* already in flight when stopPeriodicPriceCheck ran included.
C32_TickNotifiesOnlyWhileRunning ==
    (event.op = "TickFetched" /\ event.info = "notify") => bgIsMonitoring

\* C33: when configurePushNotifications fails inside startPeriodicPriceCheck the
\* Scheduler's state is unchanged: no interval is created, the handle is as before,
\* the flag stays false and the status Inactive; and a start made while the flag is
\* false awaits the configuration again.
C33_ConfigureFailureLeavesScheduler ==
    [][/\ (event'.op = "StartConfigured" /\ event'.outcome = "error")
            => /\ UNCHANGED schedulerVars
               /\ ~bgIsMonitoring
                    => (~bgIsMonitoring' /\ GetBackgroundFetchStatus' = "Inactive")
       /\ (event'.op = "StartMonitoring" /\ ~bgIsMonitoring)
            => /\ event'.info = "configure"
               /\ CopiesIn(Call("start", "configuring"), ops')
                    = CopiesIn(Call("start", "configuring"), ops) + 1]_vars

C33_Witness ==
    /\ event.op = "StartConfigured" /\ event.outcome = "error" /\ ~event.threw
    /\ ~bgIsMonitoring /\ monitoringInterval = 0 /\ timers = {}

\* C34: when refreshPrice calls overlap and complete in any order, then once none is
\* in progress currentPrice holds the price point of the call begun last among those
\* whose fetch succeeded: an older response never overwrites a newer one.
C34_LatestStartedFetchWins == ~RefreshInProgress => currentPrice = latestPrice

\* C35: when a refreshPrice call completes with its fetch succeeded and no other call
\* of the Controller (refresh or start) is in progress, error is null, also when the
\* call overlapped with a refreshPrice call that failed.
C35_SuccessfulRefreshLeavesNoError ==
    (/\ event.op = "Finish" /\ event.completed = "refresh"
     /\ event.fetchedAs \in {"under", "notUnder"}
     /\ ~\E c \in InFlight : c.kind \in {"refresh", "start"})
        => error = NoError

\* C36: a denied permission does not keep monitoring from starting: when
\* requestPermissions gives false during the configuration, startPeriodicPriceCheck
\* still creates its interval and sets the flag (status Active), startMonitoring goes
\* on to its refresh with no error set, and when it completes isMonitoring is true
\* and error null.
C36_DeniedPermissionStillStarts ==
    [][/\ (event'.op = "StartConfigured" /\ event'.outcome = "denied")
            => /\ monitoringInterval' \in timers' \ timers
               /\ bgIsMonitoring' /\ GetBackgroundFetchStatus' = "Active"
               /\ error' = NoError /\ ~event'.threw
               /\ \E c \in BagToSet(ops') : c.kind = "start" /\ c.pc = "fetching"
       /\ (event'.op = "Finish" /\ event'.completed = "start")
            => (isMonitoring' /\ error' = NoError)]_vars

C36_Witness ==
    /\ event.op = "StartConfigured" /\ event.outcome = "denied"
    /\ bgIsMonitoring /\ monitoringInterval \in timers
    /\ \E c \in InFlight : c.kind = "start" /\ c.pc = "fetching"

\* C37: in the platform-scheduled service at most one daily reminder is pending at
\* any time, whatever the sequence of startPeriodicPriceCheck and
\* stopPeriodicPriceCheck calls, repeated starts with no stop between them included.
C37_AtMostOneReminder == pendingAlerts.reminders <= 1

====
